---- MODULE Spec2Model ----
(***************************************************************************)
(* Model of the VapourSynth ATWT plugin (src/atwt/atwt.cpp) and of the     *)
(* helper scripts of src/README.md.                                        *)
(*                                                                         *)
(* Planes are functions [0..height-1 -> [0..width-1 -> sample]].  One      *)
(* plane per frame is modelled (a GRAY clip); the plugin treats every      *)
(* plane of a frame independently with the same code.                      *)
(*                                                                         *)
(* The float arithmetic of the integer code paths is modelled exactly with *)
(* integers: every partial sum of conv_h and conv_v_and_extract is an      *)
(* integer below 2^24 (at most 65535 * 256), so it is exact in binary32;   *)
(* sum / 256 and original - blurred are multiples of 1/256 below 2^16 in   *)
(* magnitude, exact too; adding neutral is exact below 65536 and anything  *)
(* at or above 65536 is clamped to max whatever its rounding.  The model   *)
(* therefore carries 256 * detail as an integer.                           *)
(***************************************************************************)
EXTENDS Integers, Sequences, FiniteSets, TLC

\* ------------------------------------------------------------------------
\* Bounds of the model
\* ------------------------------------------------------------------------

\* largest plane width and height explored in the pixel pipeline
MaxDim == 5
\* largest radius explored in the pixel pipeline
MaxRadius == 2
\* planes of at most this many samples are explored with every 0/max pattern
MaxBinaryArea == 9

\* ------------------------------------------------------------------------
\* Pure helpers of atwt.cpp
\* ------------------------------------------------------------------------

\* constexpr std::array<int, 5> KERNEL, indexed 0..4 as KERNEL.at(k + 2)
KERNEL == [i \in 0..4 |-> <<1, 4, 6, 4, 1>>[i + 1]]

\* get_neutral<T> for integral T: 1 << (bitsPerSample - 1)
get_neutral(bitsPerSample) == 2 ^ (bitsPerSample - 1)

\* get_max<T> for integral T: (1LL << bitsPerSample) - 1
get_max(bitsPerSample) == (2 ^ bitsPerSample) - 1

\* a boundary resolver that repeats the edge sample (the "symmetric" mode)
mirror_boundary_repeat(pos, max_pos) ==
    IF pos < 0 THEN (-pos) - 1
    ELSE IF pos >= max_pos THEN (2 * max_pos) - 1 - pos
    ELSE pos

\* mirror_boundary: one "101" reflection, no check of the result
mirror_boundary(pos, max_pos) ==
    IF pos < 0 THEN -pos
    ELSE IF pos >= max_pos THEN (2 * max_pos) - 2 - pos
    ELSE pos

\* std::round of the rational num / den (den > 0): half away from zero
round(num, den) ==
    IF num >= 0 THEN ((2 * num) + den) \div (2 * den)
    ELSE -(((2 * (-num)) + den) \div (2 * den))

\* std::clamp(v, lo, hi)
clamp(v, lo, hi) == IF v < lo THEN lo ELSE IF hi < v THEN hi ELSE v

\* 1 << n for a 32-bit int and 0 <= n <= 31 (C++20: modulo 2^32, so 1 << 31
\* is INT_MIN); n >= 32 is undefined and handled by the callers
shl1(n) == IF n <= 30 THEN 2 ^ n ELSE (-2147483647) - 1

INT_MAX == 2147483647
INT_MIN == (-2147483647) - 1

\* k * step leaves the 32-bit signed range (k in -2..2)
MulOverflows(kk, st) ==
    CASE kk = 2 -> st > 1073741823 \/ st < -1073741824
      [] kk = -2 -> st > 1073741824 \/ st < -1073741823
      [] kk = -1 -> st = INT_MIN
      [] OTHER -> FALSE

\* -v modulo 2^32
Neg32(v) == IF v = INT_MIN THEN INT_MIN ELSE -v

\* 2 * v modulo 2^32
Double32(v) ==
    LET m == IF v >= 0 THEN v ELSE (v + INT_MAX) + 1
    IN  IF m < 1073741824 THEN 2 * m ELSE ((2 * (m - 1073741824)) - INT_MAX) - 1

\* k * step modulo 2^32 (k in -2..2)
Mul32(kk, st) ==
    CASE kk = 2 -> Double32(st)
      [] kk = -2 -> Neg32(Double32(st))
      [] kk = -1 -> Neg32(st)
      [] kk = 0 -> 0
      [] OTHER -> st

\* a + b leaves the 32-bit signed range
AddOverflows(a, b) ==
    \/ (b > 0 /\ a > INT_MAX - b)
    \/ (b < 0 /\ a < INT_MIN - b)

\* a + b modulo 2^32
Add32(a, b) ==
    IF b > 0 /\ a > INT_MAX - b THEN ((a - INT_MAX) - 1) + ((b - INT_MAX) - 1)
    ELSE IF b < 0 /\ a < INT_MIN - b THEN ((a + INT_MAX) + 1) + ((b + INT_MAX) + 1)
    ELSE a + b

\* src_row[offset_idx]: a read outside the row yields whatever lies there
ReadSrc(src_row, offset_idx, width, garbage) ==
    IF offset_idx \in 0..(width - 1) THEN src_row[offset_idx] ELSE garbage

\* temp_src[(y_tap * width) + x]: outside the vector for y_tap outside the plane
ReadTemp(temp_src, y_tap, x, height, garbage) ==
    IF y_tap \in 0..(height - 1) THEN temp_src[y_tap][x] ELSE garbage

\* a horizontal pass that normalises the intermediate buffer by the 1D kernel sum
conv_h_normalised(src, width, height, step, garbage) ==
    [y \in 0..(height - 1) |-> [x \in 0..(width - 1) |->
        LET tap(k) == ReadSrc(src[y], mirror_boundary(x + (k * step), width),
                              width, garbage) * KERNEL[k + 2]
        IN  (tap(-2) + tap(-1) + tap(0) + tap(1) + tap(2)) \div 16]]

\* conv_h: the unnormalised horizontal 5-tap sums of every row
conv_h(src, width, height, step, garbage) ==
    [y \in 0..(height - 1) |-> [x \in 0..(width - 1) |->
        LET tap(k) == ReadSrc(src[y], mirror_boundary(x + (k * step), width),
                              width, garbage) * KERNEL[k + 2]
        IN  tap(-2) + tap(-1) + tap(0) + tap(1) + tap(2)]]

\* conv_v_and_extract for integral T; detail is carried as 256 * detail
conv_v_and_extract(temp_src, orig_src, width, height, step, bitsPerSample, garbage) ==
    LET neutral == get_neutral(bitsPerSample)
        max_val == get_max(bitsPerSample)
    IN  [y \in 0..(height - 1) |-> [x \in 0..(width - 1) |->
            LET tap(k) == ReadTemp(temp_src, mirror_boundary(y + (k * step), height),
                                   x, height, garbage) * KERNEL[k + 2]
                sum == tap(-2) + tap(-1) + tap(0) + tap(1) + tap(2)
                detail256 == ((256 * orig_src[y][x]) - sum) + (256 * neutral)
            IN  clamp(round(detail256, 256), 0, max_val)]]

\* an extraction whose taps are always adjacent, whatever the radius
process_extract_plane_step1(src, width, height, r, bitsPerSample, gsrc, gtemp) ==
    LET temp_buffer == conv_h(src, width, height, 1, gsrc)
    IN  conv_v_and_extract(temp_buffer, src, width, height, 1, bitsPerSample, gtemp)

\* process_extract_plane: step, horizontal pass into the buffer, vertical pass
process_extract_plane(src, width, height, r, bitsPerSample, gsrc, gtemp) ==
    LET step == shl1(r - 1)
        temp_buffer == conv_h(src, width, height, step, gsrc)
    IN  conv_v_and_extract(temp_buffer, src, width, height, step, bitsPerSample, gtemp)

\* a recombination that forgets the neutral offset
ProcessReplacePlaneNoOffset(base, detail, width, height, bitsPerSample) ==
    [y \in 0..(height - 1) |-> [x \in 0..(width - 1) |->
        clamp(round(base[y][x] + detail[y][x], 1), 0, get_max(bitsPerSample))]]

\* ProcessReplacePlane for integral T
ProcessReplacePlane(base, detail, width, height, bitsPerSample) ==
    LET neutral == get_neutral(bitsPerSample)
        max_val == get_max(bitsPerSample)
    IN  [y \in 0..(height - 1) |-> [x \in 0..(width - 1) |->
            clamp(round((base[y][x] + detail[y][x]) - neutral, 1), 0, max_val)]]

\* core.std.MakeDiff(a, b) of the README scripts, integer formats
MakeDiff(a, b, width, height, bitsPerSample) ==
    [y \in 0..(height - 1) |-> [x \in 0..(width - 1) |->
        clamp((a[y][x] - b[y][x]) + get_neutral(bitsPerSample), 0,
              get_max(bitsPerSample))]]

\* ------------------------------------------------------------------------
\* Inputs
\* ------------------------------------------------------------------------

\* integer sample depths explored (uint8_t and uint16_t code paths)
BitDepths == {8, 16}

\* sample values explored for a depth
Levels(b) == {0, 1, get_max(b) - 6, get_max(b)}

\* every tap of both passes resolves inside the plane
TapsInRange(r, w, h) ==
    /\ \A x \in 0..(w - 1), k \in -2..2 :
          mirror_boundary(x + (k * shl1(r - 1)), w) \in 0..(w - 1)
    /\ \A y \in 0..(h - 1), k \in -2..2 :
          mirror_boundary(y + (k * shl1(r - 1)), h) \in 0..(h - 1)

ConstPlane(w, h, c) == [y \in 0..(h - 1) |-> [x \in 0..(w - 1) |-> c]]

\* flat planes and flat planes with one sample replaced
ImpulsePlanes(w, h, b) ==
    {[ConstPlane(w, h, c) EXCEPT ![yx[1]][yx[2]] = v] :
        c \in Levels(b), yx \in (0..(h - 1)) \X (0..(w - 1)), v \in Levels(b)}

\* every pattern of 0 and max, for small planes
BinaryPlanes(w, h, b) ==
    IF w * h <= MaxBinaryArea
    THEN [0..(h - 1) -> [0..(w - 1) -> {0, get_max(b)}]]
    ELSE {}

Planes(w, h, b) == ImpulsePlanes(w, h, b) \cup BinaryPlanes(w, h, b)

\* values an out-of-row read of the source may yield (any T bit pattern)
SrcGarbage(b) == {0, IF b <= 8 THEN 255 ELSE 65535}

\* values an out-of-vector read of the float buffer may yield
TempGarbage(b) == {-(16 * get_max(b)), 16 * get_max(b)}

VARIABLES
    pc,         \* position of the run
    fi,         \* bitsPerSample of the frame format
    width,      \* plane width
    height,     \* plane height
    radius,     \* ATWTData.radius
    srcp,       \* the source plane
    dstp,       \* the plane ExtractFrequency wrote
    lowp,       \* the plane MakeDiff wrote
    outp,       \* the plane ReplaceFrequency wrote
    levels,     \* atwt_decompose: levels
    level_i,    \* atwt_decompose: loop variable
    details,    \* atwt_decompose: details; atwt_recombine: layers[:-1] not yet used
    current,    \* current_base / current_clip
    tap_step,   \* process_extract_plane: step
    tap_x,      \* conv_h: x
    tap_k,      \* conv_h: k
    taps,       \* the offset_idx values computed for x so far
    ub,         \* undefined behaviour (shift count, signed overflow) has occurred
    call,       \* the plugin function invoked and its "in" map
    outmap,     \* the "out" map: error set, filter created
    refs,       \* node references the plugin holds
    produced    \* frames the created filter has produced

pipeVars == <<fi, width, height, radius, srcp, dstp, lowp, outp>>
levelVars == <<levels, level_i, details, current>>
tapVars == <<tap_step, tap_x, tap_k, taps, ub>>
createVars == <<call, outmap, refs, produced>>

vars == <<pc, pipeVars, levelVars, tapVars, createVars>>

NoCall == [fn |-> "none"]
NoOut == [error |-> "", filter |-> ""]
NoRefs == [n \in {"clip", "base", "detail"} |-> 0]

LevelsIdle == levels = 0 /\ level_i = 0 /\ details = <<>> /\ current = <<>>
TapsIdle == tap_step = 0 /\ tap_x = 0 /\ tap_k = 0 /\ taps = <<>> /\ ub = FALSE
CreateIdle == call = NoCall /\ outmap = NoOut /\ refs = NoRefs /\ produced = 0

\* ------------------------------------------------------------------------
\* The single-level pipeline: ExtractFrequency, MakeDiff, ReplaceFrequency
\* ------------------------------------------------------------------------

Init ==
    /\ fi \in BitDepths
    /\ width \in 1..MaxDim
    /\ height \in 1..MaxDim
    /\ radius \in 1..MaxRadius
    /\ srcp \in Planes(width, height, fi)
    /\ dstp = <<>>
    /\ lowp = <<>>
    /\ outp = <<>>
    /\ pc = "src"
    /\ LevelsIdle /\ TapsIdle /\ CreateIdle

\* ExtractGetFrame, arAllFramesReady: one plane through process_extract_plane
ExtractGetFrame ==
    /\ pc = "src"
    /\ \E gsrc \in (IF TapsInRange(radius, width, height) THEN {0} ELSE SrcGarbage(fi)),
          gtemp \in (IF TapsInRange(radius, width, height) THEN {0} ELSE TempGarbage(fi)) :
          dstp' = process_extract_plane(srcp, width, height, radius, fi, gsrc, gtemp)
    /\ pc' = "extracted"
    /\ UNCHANGED <<fi, width, height, radius, srcp, lowp, outp>>
    /\ UNCHANGED <<levelVars, tapVars, createVars>>

\* next_base = core.std.MakeDiff(current_base, d)
MakeLowBand ==
    /\ pc = "extracted"
    /\ lowp' = MakeDiff(srcp, dstp, width, height, fi)
    /\ pc' = "low"
    /\ UNCHANGED <<fi, width, height, radius, srcp, dstp, outp>>
    /\ UNCHANGED <<levelVars, tapVars, createVars>>

\* ReplaceGetFrame, arAllFramesReady: one plane through ProcessReplacePlane
ReplaceGetFrame ==
    /\ pc = "low"
    /\ outp' = ProcessReplacePlane(lowp, dstp, width, height, fi)
    /\ pc' = "replaced"
    /\ UNCHANGED <<fi, width, height, radius, srcp, dstp, lowp>>
    /\ UNCHANGED <<levelVars, tapVars, createVars>>

Next == ExtractGetFrame \/ MakeLowBand \/ ReplaceGetFrame

Spec == Init /\ [][Next]_vars

\* ------------------------------------------------------------------------
\* Properties of the single-level pipeline
\* ------------------------------------------------------------------------

InRange == TapsInRange(radius, width, height)

IsFlat(p) == \A y \in 0..(height - 1), x \in 0..(width - 1) : p[y][x] = p[0][0]

\* 256 * (S - B + neutral) with 256 * B written as the 2D sum over the 25 taps
Detail256At(S, px, py, st, w, h, b) ==
    LET term(ii, jj) == (KERNEL[ii + 2] * KERNEL[jj + 2])
                        * S[mirror_boundary(py + (jj * st), h)]
                           [mirror_boundary(px + (ii * st), w)]
        over_i(jj) == term(-2, jj) + term(-1, jj) + term(0, jj) + term(1, jj)
                      + term(2, jj)
        sum2d == over_i(-2) + over_i(-1) + over_i(0) + over_i(1) + over_i(2)
    IN  ((256 * S[py][px]) - sum2d) + (256 * get_neutral(b))

\* C1: with all taps inside the plane, Replace(base = MakeDiff(S, D), detail = D)
\* for D = Extract(S, r) is S at every pixel, clamped detail samples included.
C1_InverseLaw ==
    (pc = "replaced" /\ InRange) => outp = srcp

\* a recombined plane whose detail was clamped to max at one pixel and to 0 at another
C1_Witness ==
    /\ pc = "replaced"
    /\ InRange
    /\ \E y \in 0..(height - 1), x \in 0..(width - 1) :
          /\ dstp[y][x] = get_max(fi)
          /\ Detail256At(srcp, x, y, shl1(radius - 1), width, height, fi)
                > 256 * get_max(fi) + 128
    /\ \E y \in 0..(height - 1), x \in 0..(width - 1) :
          /\ dstp[y][x] = 0
          /\ Detail256At(srcp, x, y, shl1(radius - 1), width, height, fi) < -128

\* C3: with all taps inside the plane, every output sample of Extract is
\* clamp(round(S - B + neutral), 0, max) for B the 25-tap 2D sum divided by 256.
C3_ExtractIs2DSum ==
    (pc # "src" /\ InRange) =>
        \A y \in 0..(height - 1), x \in 0..(width - 1) :
            dstp[y][x] =
                clamp(round(Detail256At(srcp, x, y, shl1(radius - 1), width, height, fi),
                            256),
                      0, get_max(fi))

\* an extraction at radius 2 of a plane that is not flat, with a rounded sample
C3_Witness ==
    /\ pc = "extracted"
    /\ InRange
    /\ radius = 2
    /\ ~IsFlat(srcp)
    /\ \E y \in 0..(height - 1), x \in 0..(width - 1) :
          /\ Detail256At(srcp, x, y, 2, width, height, fi) % 256 = 128
          /\ dstp[y][x] \notin {0, get_max(fi)}

\* C4: Extract of a flat plane is neutral everywhere, whatever the plane's
\* width and height and whatever the radius.
C4_NeutralOnFlat ==
    (pc # "src" /\ IsFlat(srcp)) =>
        \A y \in 0..(height - 1), x \in 0..(width - 1) : dstp[y][x] = get_neutral(fi)

\* the outputs of the extraction at the current radius and at radius r2 differ
DiffersFrom(r2) ==
    dstp # process_extract_plane(srcp, width, height, r2, fi, 0, 0)

OtherRadiiInRange ==
    {r2 \in (1..MaxRadius) \ {radius} : TapsInRange(r2, width, height)}

\* C9 as stated: on every plane that is not flat, two different radii whose
\* taps stay inside the plane give different outputs.
C9_Original ==
    (pc = "extracted" /\ InRange /\ ~IsFlat(srcp)) =>
        \A r2 \in OtherRadiiInRange : DiffersFrom(r2)

\* the plane is flat except for one sample, which differs by at least d
IsImpulse(p, d) ==
    \E y0 \in 0..(height - 1), x0 \in 0..(width - 1) :
        LET bg == IF x0 = 0 /\ y0 = 0
                  THEN (IF width > 1 THEN p[0][1] ELSE p[height - 1][0])
                  ELSE p[0][0]
        IN  /\ \A y \in 0..(height - 1), x \in 0..(width - 1) :
                 (<<x, y>> # <<x0, y0>>) => p[y][x] = bg
            /\ (p[y0][x0] - bg >= d \/ bg - p[y0][x0] >= d)

\* C9 amended: radius 1 and radius 2 give different outputs on every plane
\* that is flat except for one sample differing from the rest by at least 6.
C9_Amended ==
    (pc = "extracted" /\ InRange /\ IsImpulse(srcp, 6)) =>
        \A r2 \in OtherRadiiInRange : DiffersFrom(r2)

\* an impulse of exactly 6 extracted at radius 2, with radius 1 in range too
C9_Witness ==
    /\ pc = "extracted"
    /\ InRange
    /\ radius = 2
    /\ 1 \in OtherRadiiInRange
    /\ IsImpulse(srcp, 6)
    /\ ~IsImpulse(srcp, 7)

\* ------------------------------------------------------------------------
\* The README scripts: atwt_decompose followed by atwt_recombine
\* ------------------------------------------------------------------------

\* largest number of levels explored
MaxLevels == 2

InitLevels ==
    /\ fi \in BitDepths
    /\ width \in 1..MaxDim
    /\ height \in 1..MaxDim
    /\ srcp \in Planes(width, height, fi)
    /\ levels \in 1..MaxLevels
    /\ level_i = 1
    /\ details = <<>>
    /\ current = srcp
    /\ radius = 0 /\ dstp = <<>> /\ lowp = <<>> /\ outp = <<>>
    /\ pc = "decompose"
    /\ TapsIdle /\ CreateIdle

\* one iteration of atwt_decompose's loop: ExtractFrequency(current_base,
\* radius=level_i), MakeDiff, details.append(d), current_base = next_base
DecomposeStep ==
    /\ pc = "decompose"
    /\ level_i <= levels
    /\ \E gsrc \in (IF TapsInRange(level_i, width, height) THEN {0} ELSE SrcGarbage(fi)),
          gtemp \in (IF TapsInRange(level_i, width, height) THEN {0} ELSE TempGarbage(fi)) :
          LET d == process_extract_plane(current, width, height, level_i, fi, gsrc, gtemp)
              next_base == MakeDiff(current, d, width, height, fi)
          IN  /\ details' = Append(details, d)
              /\ current' = next_base
    /\ level_i' = level_i + 1
    /\ pc' = IF level_i = levels THEN "recombine" ELSE "decompose"
    /\ UNCHANGED <<fi, width, height, radius, srcp, dstp, lowp, outp, levels>>
    /\ UNCHANGED <<tapVars, createVars>>

\* one iteration of atwt_recombine's loop over the details, last level first
RecombineStep ==
    /\ pc = "recombine"
    /\ details # <<>>
    /\ current' = ProcessReplacePlane(current, details[Len(details)], width, height, fi)
    /\ details' = SubSeq(details, 1, Len(details) - 1)
    /\ pc' = IF Len(details) = 1 THEN "done" ELSE "recombine"
    /\ UNCHANGED <<fi, width, height, radius, srcp, dstp, lowp, outp, levels, level_i>>
    /\ UNCHANGED <<tapVars, createVars>>

NextLevels == DecomposeStep \/ RecombineStep

SpecLevels == InitLevels /\ [][NextLevels]_vars

\* every radius 1..levels keeps its taps inside the plane
AllLevelsInRange == \A r \in 1..levels : TapsInRange(r, width, height)

\* C2: for every plane and every levels >= 1, atwt_recombine(atwt_decompose(S,
\* levels)) is S at every pixel.
C2_Lossless == (pc = "done") => current = srcp

\* the round trip restricted to planes large enough for every level's taps
LosslessInRange == (pc = "done" /\ AllLevelsInRange) => current = srcp

\* ------------------------------------------------------------------------
\* The tap positions: process_extract_plane's step and conv_h's loops over
\* one row.  conv_v_and_extract resolves y + k * step against height with
\* the same expressions.
\* ------------------------------------------------------------------------

\* radii explored: the small ones and those around the width of int
TapRadii == (1..(MaxRadius + 1)) \cup {30, 31, 32, 33, 34}

\* what a build may leave in an int after undefined behaviour: the wrapped
\* value, or nothing of the operands
Undefined(wrapped) == {wrapped, 0}

InitTaps ==
    /\ radius \in TapRadii
    /\ width \in 1..(MaxDim + 1)
    /\ tap_step = 0
    /\ tap_x = 0
    /\ tap_k = -2
    /\ taps = <<>>
    /\ ub = FALSE
    /\ pc = "step"
    /\ fi = 8 /\ height = 1
    /\ srcp = <<>> /\ dstp = <<>> /\ lowp = <<>> /\ outp = <<>>
    /\ LevelsIdle /\ CreateIdle

\* int step = 1 << (radius - 1);
ComputeStep ==
    /\ pc = "step"
    /\ IF radius - 1 <= 31
       THEN tap_step' = shl1(radius - 1) /\ ub' = ub
       ELSE tap_step' \in Undefined(shl1((radius - 1) % 32)) /\ ub' = TRUE
    /\ pc' = "taps"
    /\ UNCHANGED <<tap_x, tap_k, taps>>
    /\ UNCHANGED <<pipeVars, levelVars, createVars>>

\* int offset_idx = mirror_boundary(x + (k * step), width);
Tap ==
    /\ pc = "taps"
    /\ tap_x < width
    /\ tap_k <= 2
    /\ \E prod \in (IF MulOverflows(tap_k, tap_step)
                   THEN Undefined(Mul32(tap_k, tap_step))
                   ELSE {tap_k * tap_step}) :
       \E pos \in (IF AddOverflows(tap_x, prod)
                  THEN Undefined(Add32(tap_x, prod))
                  ELSE {tap_x + prod}) :
       \E offset_idx \in (IF pos = INT_MIN
                         THEN Undefined(INT_MIN)
                         ELSE {mirror_boundary(pos, width)}) :
          /\ taps' = Append(taps, offset_idx)
          /\ ub' = (ub \/ MulOverflows(tap_k, tap_step) \/ AddOverflows(tap_x, prod)
                       \/ pos = INT_MIN)
    /\ tap_k' = tap_k + 1
    /\ UNCHANGED <<pc, tap_step, tap_x>>
    /\ UNCHANGED <<pipeVars, levelVars, createVars>>

\* dst_row[x] = sum; ++x
NextColumn ==
    /\ pc = "taps"
    /\ tap_x < width
    /\ tap_k = 3
    /\ tap_x' = tap_x + 1
    /\ tap_k' = -2
    /\ taps' = <<>>
    /\ pc' = IF tap_x + 1 < width THEN "taps" ELSE "done"
    /\ UNCHANGED <<tap_step, ub>>
    /\ UNCHANGED <<pipeVars, levelVars, createVars>>

NextTaps == ComputeStep \/ Tap \/ NextColumn

SpecTaps == InitTaps /\ [][NextTaps]_vars

\* C7: every index the passes request is inside the plane, for every accepted
\* radius and every plane size.
C7_TapsInsidePlane ==
    \A n \in 1..Len(taps) : taps[n] \in 0..(width - 1)

\* C8 as stated: radius 1, width 5, x = 0: the five taps are 1, 0, 0, 1, 2.
C8_Original ==
    (radius = 1 /\ width = 5 /\ tap_x = 0 /\ tap_k = 3) => taps = <<1, 0, 0, 1, 2>>

\* C8 amended: radius 1, width 5, x = 0: the five taps are 2, 1, 0, 1, 2.
C8_Amended ==
    (radius = 1 /\ width = 5 /\ tap_x = 0 /\ tap_k = 3) => taps = <<2, 1, 0, 1, 2>>

\* the five taps of x = 0 have been computed for radius 1 and width 5
C8_Witness ==
    radius = 1 /\ width = 5 /\ tap_x = 0 /\ tap_k = 3 /\ Len(taps) = 5

\* C10: for every accepted radius the step is 2^(radius-1), positive, and no
\* tap position overflows a 32-bit int.
C10_StepArithmetic ==
    (pc # "step") =>
        /\ \E e \in 0..30 : e = radius - 1 /\ tap_step = 2 ^ e
        /\ tap_step > 0
        /\ ~ub

\* ------------------------------------------------------------------------
\* Filter construction: ExtractCreate and ReplaceCreate
\* ------------------------------------------------------------------------

\* frames requested from a created filter
MaxFrames == 2

\* VSVideoFormat values: a variable format, and constant ones
VideoFormats ==
    LET constant ==
            {[colorFamily |-> cf, sampleType |-> sb[1], bitsPerSample |-> sb[2],
              subSamplingW |-> ss, subSamplingH |-> ss] :
                cf \in {"cfGray", "cfYUV"},
                sb \in {<<"stInteger", 8>>, <<"stInteger", 12>>, <<"stInteger", 16>>,
                        <<"stInteger", 32>>, <<"stFloat", 16>>, <<"stFloat", 32>>},
                ss \in {0, 1}}
    IN  {[colorFamily |-> "cfUndefined", sampleType |-> "stInteger",
          bitsPerSample |-> 0, subSamplingW |-> 0, subSamplingH |-> 0]}
        \cup {f \in constant : f.colorFamily = "cfGray" => f.subSamplingW = 0}

\* VSVideoInfo values; width = height = 0 is a clip of variable dimensions
VideoInfos ==
    {[format |-> f, width |-> wh[1], height |-> wh[2]] :
        f \in VideoFormats, wh \in {<<0, 0>>, <<4, 4>>, <<8, 4>>}}

\* the int64 "radius" argument as hi * 2^31 + lo with 0 <= lo < 2^31, or absent
RadiusArgs ==
    {[present |-> FALSE, hi |-> 0, lo |-> 0]}
    \cup
    {[present |-> TRUE, hi |-> a[1], lo |-> a[2]] :
        a \in {<<-2, 5>>, <<-1, 0>>, <<-1, INT_MAX>>, <<0, 0>>, <<0, 1>>, <<0, 2>>,
               <<0, INT_MAX>>, <<1, 0>>, <<2, 1>>}}

\* vsh::int64ToIntS: saturates to the range of int
int64ToIntS(a) ==
    IF a.hi >= 1 THEN INT_MAX
    ELSE IF a.hi <= -2 THEN INT_MIN
    ELSE IF a.hi = 0 THEN a.lo
    ELSE (a.lo - INT_MAX) - 1

\* vsh::isConstantVideoFormat
isConstantVideoFormat(vi) ==
    vi.height > 0 /\ vi.width > 0 /\ vi.format.colorFamily # "cfUndefined"

\* vsh::isSameVideoFormat: compares two VSVideoFormat, which hold no dimensions
isSameVideoFormat(v1, v2) ==
    /\ v1.colorFamily = v2.colorFamily
    /\ v1.sampleType = v2.sampleType
    /\ v1.bitsPerSample = v2.bitsPerSample
    /\ v1.subSamplingW = v2.subSamplingW
    /\ v1.subSamplingH = v2.subSamplingH

\* a format test that turns 16-bit integer clips away
FormatUnsupportedBelow16(format) ==
    /\ (format.bitsPerSample < 8 \/ format.bitsPerSample >= 16
        \/ format.sampleType # "stInteger")
    /\ (format.bitsPerSample # 32 \/ format.sampleType # "stFloat")

\* the format test of ExtractCreate and ReplaceCreate
FormatUnsupported(format) ==
    /\ (format.bitsPerSample < 8 \/ format.bitsPerSample > 16
        \/ format.sampleType # "stInteger")
    /\ (format.bitsPerSample # 32 \/ format.sampleType # "stFloat")

InitCreate ==
    /\ pc = "idle"
    /\ CreateIdle
    /\ radius = 0
    /\ fi = 8 /\ width = 1 /\ height = 1
    /\ srcp = <<>> /\ dstp = <<>> /\ lowp = <<>> /\ outp = <<>>
    /\ LevelsIdle /\ TapsIdle

\* ExtractCreate(in = {clip, radius?}, out)
ExtractCreate ==
    /\ pc = "idle"
    /\ \E vi \in VideoInfos, arg \in RadiusArgs :
          LET d_radius == IF arg.present THEN int64ToIntS(arg) ELSE 1
              error ==
                  IF d_radius < 1
                  THEN "ExtractFrequency: radius must be >= 1"
                  ELSE IF ~isConstantVideoFormat(vi)
                  THEN "ExtractFrequency: only clips with constant format are accepted"
                  ELSE IF FormatUnsupported(vi.format)
                  THEN "ExtractFrequency: only 8-16 bit integer or 32 bit float input are accepted"
                  ELSE ""
          IN  /\ call' = [fn |-> "ExtractCreate", clip |-> vi, radius |-> arg]
              /\ IF error # ""
                 THEN /\ outmap' = [error |-> error, filter |-> ""]
                      /\ refs' = [refs EXCEPT !["clip"] = (@ + 1) - 1]
                      /\ radius' = radius
                      /\ pc' = "failed"
                 ELSE /\ outmap' = [error |-> "", filter |-> "ExtractFrequency"]
                      /\ refs' = [refs EXCEPT !["clip"] = @ + 1]
                      /\ radius' = d_radius
                      /\ pc' = "created"
    /\ UNCHANGED <<fi, width, height, srcp, dstp, lowp, outp, produced>>
    /\ UNCHANGED <<levelVars, tapVars>>

\* ReplaceCreate(in = {base, detail}, out)
ReplaceCreate ==
    /\ pc = "idle"
    /\ \E vi \in VideoInfos, vi_detail \in VideoInfos :
          LET error ==
                  IF ~isSameVideoFormat(vi.format, vi_detail.format)
                  THEN "ReplaceFrequency: base and detail must have the same format and dimensions"
                  ELSE IF FormatUnsupported(vi.format) \/ ~isConstantVideoFormat(vi)
                  THEN "ReplaceFrequency: only constant 8-16 bit integer or 32 bit float input are accepted"
                  ELSE ""
          IN  /\ call' = [fn |-> "ReplaceCreate", base |-> vi, detail |-> vi_detail]
              /\ IF error # ""
                 THEN /\ outmap' = [error |-> error, filter |-> ""]
                      /\ refs' = [refs EXCEPT !["base"] = (@ + 1) - 1,
                                              !["detail"] = (@ + 1) - 1]
                      /\ pc' = "failed"
                 ELSE /\ outmap' = [error |-> "", filter |-> "ReplaceFrequency"]
                      /\ refs' = [refs EXCEPT !["base"] = @ + 1, !["detail"] = @ + 1]
                      /\ pc' = "created"
    /\ UNCHANGED <<pipeVars, produced>>
    /\ UNCHANGED <<levelVars, tapVars>>

\* the host runs the created filter's getFrame callback to completion
GetFrame ==
    /\ pc = "created"
    /\ produced < MaxFrames
    /\ produced' = produced + 1
    /\ UNCHANGED <<pc, call, outmap, refs>>
    /\ UNCHANGED <<pipeVars, levelVars, tapVars>>

\* ExtractFree / ReplaceFree: the filter's node references are released
Free ==
    /\ pc = "created"
    /\ refs' = NoRefs
    /\ pc' = "freed"
    /\ UNCHANGED <<call, outmap, produced>>
    /\ UNCHANGED <<pipeVars, levelVars, tapVars>>

NextCreate == ExtractCreate \/ ReplaceCreate \/ GetFrame \/ Free

SpecCreate == InitCreate /\ [][NextCreate]_vars

\* the int64 argument is below 1
ArgBelowOne(a) == a.hi < 0 \/ (a.hi = 0 /\ a.lo < 1)

\* 8-16 bit integer or 32-bit float
AcceptedFormat(f) ==
    \/ (f.sampleType = "stInteger" /\ f.bitsPerSample \in 8..16)
    \/ (f.sampleType = "stFloat" /\ f.bitsPerSample = 32)

\* C5: when base and detail differ in format or in dimensions, ReplaceCreate
\* sets an error, creates no filter, and no frame is ever produced.
C5_ReplaceRejectsMismatch ==
    (call.fn = "ReplaceCreate"
       /\ (call.base.format # call.detail.format
           \/ call.base.width # call.detail.width
           \/ call.base.height # call.detail.height))
    => (outmap.error # "" /\ outmap.filter = "" /\ produced = 0)

\* C6: ExtractCreate sets an error, holds no node reference and creates no
\* filter exactly when radius < 1, or the clip is not of constant format, or the
\* format is neither 8-16 bit integer nor 32-bit float; otherwise it creates
\* the filter without error, with radius 1 when the argument is omitted.
C6_ExtractValidation ==
    (call.fn = "ExtractCreate") =>
        LET rejected == \/ (call.radius.present /\ ArgBelowOne(call.radius))
                        \/ ~isConstantVideoFormat(call.clip)
                        \/ ~AcceptedFormat(call.clip.format)
        IN  IF rejected
            THEN /\ outmap.error # ""
                 /\ outmap.filter = ""
                 /\ refs["clip"] = 0
                 /\ produced = 0
                 /\ pc = "failed"
            ELSE /\ outmap.error = ""
                 /\ outmap.filter = "ExtractFrequency"
                 /\ pc \in {"created", "freed"}
                 /\ (pc = "created" => refs["clip"] = 1)
                 /\ (~call.radius.present => radius = 1)

\* a 16-bit integer clip accepted with the radius omitted, and a frame produced
C6_Witness ==
    /\ call.fn = "ExtractCreate"
    /\ ~call.radius.present
    /\ call.clip.format.bitsPerSample = 16
    /\ call.clip.format.sampleType = "stInteger"
    /\ outmap.filter = "ExtractFrequency"
    /\ radius = 1
    /\ produced > 0

====
